---------------------------- MODULE Spec2Model ----------------------------
(***************************************************************************)
(* A model of the nahid_learns documentation site: its content files, its  *)
(* sidebar configuration, its site configuration, the homepage components  *)
(* and the theme-switching script of the SVG illustration.                 *)
(*                                                                         *)
(* Paths, document ids and link targets are sequences of path segments:    *)
(* "/docs/ai/intro" is <<"docs", "ai", "intro">>.                          *)
(***************************************************************************)
EXTENDS Integers, Sequences, FiniteSets, TLC

VARIABLES
    nodes,      \* the sidebar node table (sidebars.ts), by line of the literal
    sidebars,   \* the sidebars object: sidebar id -> its top-level nodes
    featureList,\* FeatureList of the homepage
    siteConfig, \* the site configuration object
    walk,       \* the traversal of one sidebar: sidebar, stack, visited
    walked,     \* sidebar id -> the nodes its finished traversal visited
    missing,    \* doc ids a traversal could not resolve to a document
    render,     \* the render of Home in progress: page, pc, idx, out
    renders,    \* number of renders of Home started
    pages,      \* page -> the markup of its renders, in order
    checked,    \* links the link checker has resolved
    broken,     \* links the link checker could not resolve
    brokenMd,   \* Markdown file links the docs plugin could not resolve
    build,      \* the build: status, warnings
    svg,        \* the SVG document: loaded, theme, inline styles, records,
                \* and seen, the attribute names delivered to its callback
    clock,      \* the year new Date().getFullYear() returns now
    copyright,  \* the year in themeConfig.footer.copyright, once evaluated
    color       \* the colour mode of a visitor's page: prefers, mode, switched

vars == <<nodes, sidebars, featureList, siteConfig, walk, walked, missing,
          render, renders, pages, checked, broken, brokenMd, build, svg,
          clock, copyright, color>>

---------------------------------------------------------------------------
(* Bounds of the model. *)

\* Renders of Home the model follows.
MaxRenders == 2

\* Mutation records the observer's queue holds before a delivery.
MaxPending == 2

\* The year in which the configuration is evaluated.
FirstYear == 2026

\* Turns of the year the model follows after that.
MaxYears == 1

---------------------------------------------------------------------------
(* Source files.  A file is its directory, base name, extension, what its  *)
(* content starts with, its front-matter blocks (the line of the opening   *)
(* "---" and the sidebar_position it sets, each block setting it once),    *)
(* and the lines of its level-1 titles, those outside code fences.         *)

File(src, dir, base, ext, head, fm, h1) ==
    [src |-> src, dir |-> dir, base |-> base, ext |-> ext, head |-> head, fm |-> fm,
     h1 |-> h1]

Fm(line, pos) == [line |-> line, pos |-> pos]

psIntro == File("docs/problem-solving/intro.md",
    <<"docs", "problem-solving">>, "intro", "md", "frontmatter", <<Fm(1, 1)>>,
    <<5>>)

cpDataStructures == File("docs/problem-solving/cp-concepts/data-structures.md",
    <<"docs", "problem-solving", "cp-concepts">>, "data-structures", "md",
    "frontmatter", <<Fm(1, 3)>>,
    <<5>>)

cpDynamicProgramming == File("docs/problem-solving/cp-concepts/dynamic-programming.md",
    <<"docs", "problem-solving", "cp-concepts">>, "dynamic-programming", "md",
    "frontmatter", <<Fm(1, 5)>>,
    <<5>>)

wdIntro == File("docs/web-development/intro.md",
    <<"docs", "web-development">>, "intro", "md", "frontmatter", <<Fm(1, 1)>>,
    <<5>>)

\* The file holds a second block at line 166, titled "Next.js".
nextDataFetching == File("docs/web-development/nextjs/data-fetching.md",
    <<"docs", "web-development", "nextjs">>, "data-fetching", "md",
    "frontmatter", <<Fm(1, 4), Fm(166, 1)>>,
    <<5, 170>>)

\* The file holds a second block at line 476, titled "React Hooks" again.
reactHooks == File("docs/web-development/reactjs/hooks.md",
    <<"docs", "web-development", "reactjs">>, "hooks", "md",
    "frontmatter", <<Fm(1, 2), Fm(476, 2)>>,
    <<5, 480>>)

reactPerformance == File("docs/web-development/reactjs/performance.md",
    <<"docs", "web-development", "reactjs">>, "performance", "md",
    "frontmatter", <<Fm(1, 4)>>,
    <<5>>)

\* The file holds a second block at line 520, titled "React.js".
reactSecurity == File("docs/web-development/reactjs/security.md",
    <<"docs", "web-development", "reactjs">>, "security", "md",
    "frontmatter", <<Fm(1, 6), Fm(520, 1)>>,
    <<5, 524>>)

reactStateManagement == File("docs/web-development/reactjs/state-management.md",
    <<"docs", "web-development", "reactjs">>, "state-management", "md",
    "frontmatter", <<Fm(1, 3)>>,
    <<5>>)

reactTesting == File("docs/web-development/reactjs/testing.md",
    <<"docs", "web-development", "reactjs">>, "testing", "md",
    "frontmatter", <<Fm(1, 5)>>,
    <<5>>)

(* The files whose names are not known.  A Markdown file is placed by its  *)
(* title and sidebar_position where these fit one document of the sidebar  *)
(* and no named file; the others are placed under "unknown".               *)

\* "Competitive Programming Concepts", position 1.
cpIntro == File("unnamed/part_003",
    <<"docs", "problem-solving", "cp-concepts">>, "intro", "md",
    "frontmatter", <<Fm(1, 1)>>,
    <<5>>)

\* "Essential Algorithms", position 4.
cpAlgorithms == File("unnamed/part_004",
    <<"docs", "problem-solving", "cp-concepts">>, "algorithms", "md",
    "frontmatter", <<Fm(1, 4)>>,
    <<5>>)

\* "Time Complexity Analysis", position 2.
cpTimeComplexity == File("unnamed/part_005",
    <<"docs", "problem-solving", "cp-concepts">>, "time-complexity", "md",
    "frontmatter", <<Fm(1, 2)>>,
    <<5>>)

\* "Introduction to Generative AI", position 1: no sidebar names it.
aiGenerative == File("unnamed/part_006",
    <<"docs", "unknown">>, "part_006", "md", "frontmatter", <<Fm(1, 1)>>,
    <<5>>)

\* "Introduction to AI & Machine Learning", position 1.
aiIntro == File("unnamed/part_007",
    <<"docs", "ai">>, "intro", "md", "frontmatter", <<Fm(1, 1)>>,
    <<5>>)

\* "React Performance Optimization", position 4: another text of that title.
reactPerformanceOther == File("unnamed/part_008",
    <<"docs", "unknown">>, "part_008", "md", "frontmatter", <<Fm(1, 4)>>,
    <<5>>)

\* "React Security Best Practices", position 6: another text of that title.
reactSecurityOther == File("unnamed/part_009",
    <<"docs", "unknown">>, "part_009", "md", "frontmatter", <<Fm(1, 6)>>,
    <<5>>)

\* "State Management in React", position 3: another text of that title.
reactStateManagementOther == File("unnamed/part_010",
    <<"docs", "unknown">>, "part_010", "md", "frontmatter", <<Fm(1, 3)>>,
    <<5>>)

\* "Getting Started with Next.js", position 2.
nextGettingStarted == File("unnamed/part_011",
    <<"docs", "web-development", "nextjs">>, "getting-started", "md",
    "frontmatter", <<Fm(1, 2)>>,
    <<5>>)

\* "Routing in Next.js", position 3.
nextRouting == File("unnamed/part_012",
    <<"docs", "web-development", "nextjs">>, "routing", "md",
    "frontmatter", <<Fm(1, 3)>>,
    <<5>>)

\* The illustration the homepage shows: an SVG file.  From line 106 on it
\* holds the text of "Introduction to App Development" after </svg>.
illustration == File("unnamed/part_002",
    <<"static", "img">>, "learning-illustration", "svg", "svg", <<Fm(106, 1)>>,
    <<110>>)

\* The homepage, and the other text of it.
indexPage == File("src/pages/index.tsx", <<"src", "pages">>, "index", "tsx", "code", <<>>,
    <<>>)

indexPageOther == File("unnamed/part_000", <<"src", "unknown">>, "part_000", "tsx", "code", <<>>,
    <<>>)

SourceFiles ==
    { psIntro, cpDataStructures, cpDynamicProgramming, wdIntro, nextDataFetching,
      reactHooks, reactPerformance, reactSecurity, reactStateManagement,
      reactTesting, cpIntro, cpAlgorithms, cpTimeComplexity, aiGenerative,
      aiIntro, reactPerformanceOther, reactSecurityOther,
      reactStateManagementOther, nextGettingStarted, nextRouting,
      illustration, indexPage, indexPageOther }

---------------------------------------------------------------------------
(* The documents of the site.  The docs plugin reads the Markdown files    *)
(* under docs/; a document's id is its path under docs/ without the        *)
(* extension, and its page is served at /docs/<id>.                        *)

IsDoc(f) == Len(f.dir) >= 1 /\ f.dir[1] = "docs" /\ f.ext \in {"md", "mdx"}

DocId(f) == Tail(f.dir) \o <<f.base>>

Docs == {f \in SourceFiles : IsDoc(f)}

DocIds == {DocId(f) : f \in Docs}

DocRoute(id) == <<"docs">> \o id

---------------------------------------------------------------------------
(* sidebars.ts.  A node of the literal is named by the line it starts at.  *)
(* A string item is a node of type "doc".                                  *)

NoLink == [type |-> "none", id |-> <<>>]

DocLink(id) == [type |-> "doc", id |-> id]

Category(label, link, items) ==
    [type |-> "category", label |-> label, link |-> link, id |-> <<>>, items |-> items]

Leaf(id) ==
    [type |-> "doc", label |-> "", link |-> NoLink, id |-> id, items |-> <<>>]

\* problemSolvingNodes with the id of the item at line 36 misspelt.
problemSolvingNodesTypo ==
    (18 :> Category("Problem Solving",
                    DocLink(<<"problem-solving", "intro">>), <<26>>)) @@
    (26 :> Category("Competitive Programming Concepts",
                    DocLink(<<"problem-solving", "cp-concepts", "intro">>),
                    <<34, 35, 36, 37>>)) @@
    (34 :> Leaf(<<"problem-solving", "cp-concepts", "time-complexity">>)) @@
    (35 :> Leaf(<<"problem-solving", "cp-concepts", "data-structures">>)) @@
    (36 :> Leaf(<<"problem-solving", "cp-concepts", "algorithm">>)) @@
    (37 :> Leaf(<<"problem-solving", "cp-concepts", "dynamic-programming">>))

problemSolvingNodes ==
    (18 :> Category("Problem Solving",
                    DocLink(<<"problem-solving", "intro">>), <<26>>)) @@
    (26 :> Category("Competitive Programming Concepts",
                    DocLink(<<"problem-solving", "cp-concepts", "intro">>),
                    <<34, 35, 36, 37>>)) @@
    (34 :> Leaf(<<"problem-solving", "cp-concepts", "time-complexity">>)) @@
    (35 :> Leaf(<<"problem-solving", "cp-concepts", "data-structures">>)) @@
    (36 :> Leaf(<<"problem-solving", "cp-concepts", "algorithms">>)) @@
    (37 :> Leaf(<<"problem-solving", "cp-concepts", "dynamic-programming">>))

aiNodes ==
    (46 :> Category("AI & Machine Learning", DocLink(<<"ai", "intro">>), <<>>))

\* appDevSidebar with its category linked to mobile-development/intro.
appDevNodesMobile ==
    (59 :> Category("App Development",
                    DocLink(<<"mobile-development", "intro">>), <<>>))

appDevNodes ==
    (59 :> Category("App Development",
                    DocLink(<<"app-development", "intro">>), <<>>))

\* webDevNodes with the React.js category object used twice: as an item of
\* Web Development and as an item of Next.js.
webDevNodesShared ==
    (72 :> Category("Web Development",
                    DocLink(<<"web-development", "intro">>), <<80, 93>>)) @@
    (80 :> Category("Next.js",
                    DocLink(<<"web-development", "nextjs", "intro">>),
                    <<88, 89, 90, 93>>)) @@
    (88 :> Leaf(<<"web-development", "nextjs", "getting-started">>)) @@
    (89 :> Leaf(<<"web-development", "nextjs", "routing">>)) @@
    (90 :> Leaf(<<"web-development", "nextjs", "data-fetching">>)) @@
    (93 :> Category("React.js",
                    DocLink(<<"web-development", "reactjs", "intro">>),
                    <<101, 102, 103, 104, 105>>)) @@
    (101 :> Leaf(<<"web-development", "reactjs", "hooks">>)) @@
    (102 :> Leaf(<<"web-development", "reactjs", "state-management">>)) @@
    (103 :> Leaf(<<"web-development", "reactjs", "performance">>)) @@
    (104 :> Leaf(<<"web-development", "reactjs", "testing">>)) @@
    (105 :> Leaf(<<"web-development", "reactjs", "security">>))

webDevNodes ==
    (72 :> Category("Web Development",
                    DocLink(<<"web-development", "intro">>), <<80, 93>>)) @@
    (80 :> Category("Next.js",
                    DocLink(<<"web-development", "nextjs", "intro">>),
                    <<88, 89, 90>>)) @@
    (88 :> Leaf(<<"web-development", "nextjs", "getting-started">>)) @@
    (89 :> Leaf(<<"web-development", "nextjs", "routing">>)) @@
    (90 :> Leaf(<<"web-development", "nextjs", "data-fetching">>)) @@
    (93 :> Category("React.js",
                    DocLink(<<"web-development", "reactjs", "intro">>),
                    <<101, 102, 103, 104, 105>>)) @@
    (101 :> Leaf(<<"web-development", "reactjs", "hooks">>)) @@
    (102 :> Leaf(<<"web-development", "reactjs", "state-management">>)) @@
    (103 :> Leaf(<<"web-development", "reactjs", "performance">>)) @@
    (104 :> Leaf(<<"web-development", "reactjs", "testing">>)) @@
    (105 :> Leaf(<<"web-development", "reactjs", "security">>))

SidebarNodes == problemSolvingNodes @@ aiNodes @@ appDevNodes @@ webDevNodes

\* The keys of the sidebars object, in the order the literal gives them.
SidebarIds == <<"problemSolvingSidebar", "aiSidebar", "appDevSidebar", "webDevSidebar">>

Sidebars ==
    [problemSolvingSidebar |-> <<18>>,
     aiSidebar |-> <<46>>,
     appDevSidebar |-> <<59>>,
     webDevSidebar |-> <<72>>]

---------------------------------------------------------------------------
(* docusaurus.config.ts. *)

\* A navbar item of type docSidebar left with the sidebarId of the
\* scaffold, tutorialSidebar.
NavSidebarScaffold(sidebarId, label) ==
    [kind |-> "docSidebar", sidebarId |-> "tutorialSidebar", to |-> <<>>,
     label |-> label]

NavSidebar(sidebarId, label) ==
    [kind |-> "docSidebar", sidebarId |-> sidebarId, to |-> <<>>, label |-> label]

NavTo(to, label) == [kind |-> "to", sidebarId |-> "", to |-> to, label |-> label]

NavHref(label) == [kind |-> "href", sidebarId |-> "", to |-> <<>>, label |-> label]

\* onBrokenLinks set as onBrokenMarkdownLinks is.
OnBrokenLinksWarn == "warn"

OnBrokenLinks == "throw"

OnBrokenMarkdownLinks == "warn"

\* themeConfig.colorMode following neither the system nor the visitor.
colorModeFixed ==
    [defaultMode |-> "light", disableSwitch |-> TRUE,
     respectPrefersColorScheme |-> FALSE]

\* themeConfig.colorMode
colorMode ==
    [defaultMode |-> "light", disableSwitch |-> FALSE,
     respectPrefersColorScheme |-> TRUE]

config ==
    [title |-> "Nahid Learns",
     tagline |-> "My Learning Journey in Tech",
     baseUrl |-> <<>>,
     onBrokenLinks |-> OnBrokenLinks,
     onBrokenMarkdownLinks |-> OnBrokenMarkdownLinks,
     presets |-> [docs |-> TRUE, blog |-> TRUE],
     navbar |->
        <<NavSidebar("problemSolvingSidebar", "Problem Solving"),
          NavSidebar("webDevSidebar", "Web Development"),
          NavSidebar("aiSidebar", "AI & ML"),
          NavSidebar("appDevSidebar", "App Development"),
          NavTo(<<"blog">>, "Blog"),
          NavHref("GitHub")>>,
     footer |->
        <<[title |-> "Learn",
           items |-> <<NavTo(<<"docs", "problem-solving", "intro">>, "Problem Solving"),
                       NavTo(<<"docs", "web-development", "intro">>, "Web Development"),
                       NavTo(<<"docs", "ai", "intro">>, "AI & Machine Learning"),
                       NavTo(<<"docs", "app-development", "intro">>, "App Development")>>],
          [title |-> "Connect",
           items |-> <<NavHref("GitHub"), NavHref("Twitter"), NavHref("LinkedIn")>>],
          [title |-> "More",
           items |-> <<NavTo(<<"blog">>, "Blog"), NavHref("Source Code")>>]>>,
     colorMode |-> colorMode]

---------------------------------------------------------------------------
(* src/pages/index.tsx.  An icon is named for the emoji it is. *)

FeatureItem(title, description, link, icon) ==
    [title |-> title, description |-> description, link |-> link, icon |-> icon]

FeatureList ==
    <<FeatureItem("Problem Solving",
                  "Master algorithms, data structures, and competitive programming",
                  <<"docs", "problem-solving", "intro">>, "puzzle"),
      FeatureItem("Web Development",
                  "Build modern web applications with React, Next.js",
                  <<"docs", "web-development", "intro">>, "globe"),
      FeatureItem("AI & Machine Learning",
                  "Explore the world of artificial intelligence",
                  <<"docs", "ai", "intro">>, "robot"),
      FeatureItem("App Development",
                  "Create cross-platform mobile applications",
                  <<"docs", "app-development", "intro">>, "phone")>>

LinkTo(to, text) == [to |-> to, text |-> text]

\* The hero buttons of HomepageHeader, per text of the homepage.
HeroButtons(page) ==
    IF page = "index"
    THEN <<LinkTo(<<"docs", "problem-solving", "intro">>, "Start Learning")>>
    ELSE <<LinkTo(<<"docs", "problem-solving", "intro">>, "Start Learning"),
           LinkTo(<<"docs", "intro">>, "Documentation")>>

\* HomepageHeader with the title and the tagline written into the markup.
HomepageHeaderLiteral(page, cfg) ==
    [h1 |-> "Nahid Learns", subtitle |-> "My Learning Journey in Tech",
     buttons |-> HeroButtons(page)]

HomepageHeader(page, cfg) ==
    [h1 |-> cfg.title, subtitle |-> cfg.tagline, buttons |-> HeroButtons(page)]

\* Feature with the link of the hero button in place of the entry's.
FeatureHeroLink(props) ==
    [icon |-> props.icon, h3 |-> props.title, body |-> props.description,
     link |-> LinkTo(<<"docs", "problem-solving", "intro">>, "Learn More")]

Feature(props) ==
    [icon |-> props.icon, h3 |-> props.title, body |-> props.description,
     link |-> LinkTo(props.link, "Learn More")]

\* The headings of the four cards of WhySection.
WhySection ==
    <<"Comprehensive Content", "Practical Examples", "Modern Technologies",
      "Clear Explanations">>

RecentUpdates ==
    <<LinkTo(<<"docs", "web-development", "reactjs", "hooks">>, "Check out the new content"),
      LinkTo(<<"docs", "ai", "intro">>, "Start learning AI"),
      LinkTo(<<"blog">>, "View All Updates")>>

\* The two texts of the homepage.
HomePages == {"index", "other"}

---------------------------------------------------------------------------
(* Loading the sidebars: each sidebar is walked from its top-level nodes,  *)
(* depth first, items in order; a node that names a document is resolved.  *)

NoWalk == [sidebar |-> "", stack |-> <<>>, visited |-> <<>>]

\* What node n names that is no document: its own id (an item) or its link.
Unresolved(n) ==
    LET nd == nodes[n] IN
    (IF nd.type = "doc" /\ nd.id \notin DocIds
     THEN {[node |-> n, as |-> "item", id |-> nd.id]} ELSE {})
    \cup
    (IF nd.link.type = "doc" /\ nd.link.id \notin DocIds
     THEN {[node |-> n, as |-> "link", id |-> nd.link.id]} ELSE {})

StartWalk ==
    /\ build.phase = "sidebars"
    /\ walk.sidebar = ""
    /\ Cardinality(DOMAIN walked) < Len(SidebarIds)
    /\ LET sb == SidebarIds[Cardinality(DOMAIN walked) + 1] IN
       walk' = [sidebar |-> sb, stack |-> sidebars[sb], visited |-> <<>>]
    /\ UNCHANGED <<clock, copyright, color,
                   nodes, sidebars, featureList, siteConfig, walked, missing,
                   render, renders, pages, checked, broken, brokenMd, build, svg>>

VisitNode ==
    /\ build.phase = "sidebars"
    /\ walk.sidebar # ""
    /\ walk.stack # <<>>
    /\ LET n == Head(walk.stack) IN
       /\ walk' = [walk EXCEPT !.stack = nodes[n].items \o Tail(walk.stack),
                               !.visited = Append(walk.visited, n)]
       /\ missing' = missing \cup Unresolved(n)
    /\ UNCHANGED <<clock, copyright, color,
                   nodes, sidebars, featureList, siteConfig, walked,
                   render, renders, pages, checked, broken, brokenMd, build, svg>>

FinishWalk ==
    /\ build.phase = "sidebars"
    /\ walk.sidebar # ""
    /\ walk.stack = <<>>
    /\ walked' = walked @@ (walk.sidebar :> walk.visited)
    /\ walk' = NoWalk
    /\ build' = IF Cardinality(DOMAIN walked) + 1 = Len(SidebarIds)
                THEN [build EXCEPT !.phase = "render"]
                ELSE build
    /\ UNCHANGED <<clock, copyright, color,
                   nodes, sidebars, featureList, siteConfig, missing,
                   render, renders, pages, checked, broken, brokenMd, svg>>

---------------------------------------------------------------------------
(* Rendering Home.  The markup of a render is the Layout title, the        *)
(* header, the cards of the features row in order, and the sections that   *)
(* follow it.                                                              *)

NoRender == [page |-> "", pc |-> "idle", idx |-> 0, out |-> <<>>]

Markup(title) ==
    [layoutTitle |-> title, header |-> <<>>, cards |-> <<>>, why |-> <<>>,
     updates |-> <<>>, footer |-> 0]

\* The footer's copyright computing its year when the footer is rendered.
FooterCopyrightNow(evaluated, now) == now

\* The year of the footer's copyright at a time now: the template literal
\* of the configuration was evaluated with the module, and is a string since.
FooterCopyright(evaluated, now) == evaluated

Reverse(seq) == [i \in DOMAIN seq |-> seq[Len(seq) + 1 - i]]

\* Home calling FeatureList.reverse(), which reverses the array in place.
RenderHomeReversing ==
    /\ build.phase = "render"
    /\ render.pc = "idle"
    /\ renders < MaxRenders
    /\ \E page \in HomePages :
          render' = [page |-> page, pc |-> "header", idx |-> 0,
                     out |-> [Markup(siteConfig.title) EXCEPT
                                !.footer = FooterCopyright(copyright, clock)]]
    /\ renders' = renders + 1
    /\ featureList' = Reverse(featureList)
    /\ UNCHANGED <<clock, copyright, color,
                   nodes, sidebars, siteConfig, walk, walked, missing,
                   pages, checked, broken, brokenMd, build, svg>>

\* Home is called: useDocusaurusContext() and the Layout element.
RenderHome ==
    /\ build.phase = "render"
    /\ render.pc = "idle"
    /\ renders < MaxRenders
    /\ \E page \in HomePages :
          render' = [page |-> page, pc |-> "header", idx |-> 0,
                     out |-> [Markup(siteConfig.title) EXCEPT
                                !.footer = FooterCopyright(copyright, clock)]]
    /\ renders' = renders + 1
    /\ UNCHANGED <<clock, copyright, color,
                   nodes, sidebars, featureList, siteConfig, walk, walked, missing,
                   pages, checked, broken, brokenMd, build, svg>>

\* <HomepageHeader />
RenderHeader ==
    /\ render.pc = "header"
    /\ render' = [render EXCEPT
                    !.out.header = <<HomepageHeader(render.page, siteConfig)>>,
                    !.pc = "features"]
    /\ UNCHANGED <<clock, copyright, color,
                   nodes, sidebars, featureList, siteConfig, walk, walked, missing,
                   renders, pages, checked, broken, brokenMd, build, svg>>

\* The callback taking its key from a counter that outlives the render.
RenderFeatureCounting ==
    /\ render.pc = "features"
    /\ render.idx < Len(featureList)
    /\ render' = [render EXCEPT
                    !.out.cards = Append(@, [key |-> (renders - 1) * Len(featureList) + render.idx,
                                             card |-> Feature(featureList[render.idx + 1])]),
                    !.idx = @ + 1]
    /\ UNCHANGED <<clock, copyright, color,
                   nodes, sidebars, featureList, siteConfig, walk, walked, missing,
                   renders, pages, checked, broken, brokenMd, build, svg>>

\* One call of the callback of FeatureList.map: <Feature key={idx} {...props} />
RenderFeature ==
    /\ render.pc = "features"
    /\ render.idx < Len(featureList)
    /\ render' = [render EXCEPT
                    !.out.cards = Append(@, [key |-> render.idx,
                                             card |-> Feature(featureList[render.idx + 1])]),
                    !.idx = @ + 1]
    /\ UNCHANGED <<clock, copyright, color,
                   nodes, sidebars, featureList, siteConfig, walk, walked, missing,
                   renders, pages, checked, broken, brokenMd, build, svg>>

\* What follows the features row: nothing in index.tsx, <WhySection /> and
\* <RecentUpdates /> in the other text.
RenderSections ==
    /\ render.pc = "features"
    /\ render.idx = Len(featureList)
    /\ render' = [render EXCEPT
                    !.out.why = IF render.page = "other" THEN WhySection ELSE <<>>,
                    !.out.updates = IF render.page = "other" THEN RecentUpdates ELSE <<>>,
                    !.pc = "done"]
    /\ UNCHANGED <<clock, copyright, color,
                   nodes, sidebars, featureList, siteConfig, walk, walked, missing,
                   renders, pages, checked, broken, brokenMd, build, svg>>

\* Home returns: the markup is the page's.
RenderReturn ==
    /\ render.pc = "done"
    /\ pages' = [pages EXCEPT ![render.page] = Append(@, render.out)]
    /\ render' = NoRender
    /\ UNCHANGED <<clock, copyright, color,
                   nodes, sidebars, featureList, siteConfig, walk, walked, missing,
                   renders, checked, broken, brokenMd, build, svg>>

\* The pages are rendered: the links are checked next.
RenderEnd ==
    /\ build.phase = "render"
    /\ render.pc = "idle"
    /\ renders >= 1
    /\ build' = [build EXCEPT !.phase = "links"]
    /\ UNCHANGED <<clock, copyright, color,
                   nodes, sidebars, featureList, siteConfig, walk, walked, missing,
                   render, renders, pages, checked, broken, brokenMd, svg>>

---------------------------------------------------------------------------
(* The links of the site and the pages the build produces. *)

Range(seq) == {seq[i] : i \in DOMAIN seq}

Emitted(from, part, to) == [from |-> from, part |-> part, to |-> to]

\* The links of one render of Home.
PageLinks(page, m) ==
    {Emitted(page, "hero", b.to) : b \in UNION {Range(h.buttons) : h \in Range(m.header)}}
    \cup {Emitted(page, "feature", c.card.link.to) : c \in Range(m.cards)}
    \cup {Emitted(page, "updates", u.to) : u \in Range(m.updates)}

\* The "to" items of the navbar and of the footer columns.
ConfigLinks(cfg) ==
    {Emitted("config", "navbar", i.to) : i \in {j \in Range(cfg.navbar) : j.kind = "to"}}
    \cup UNION {{Emitted("config", col.title, i.to) :
                    i \in {j \in Range(col.items) : j.kind = "to"}} :
                col \in Range(cfg.footer)}

\* The internal links of the documents: docs/web-development/intro.md, line 59.
ContentLinks ==
    {Emitted("content", wdIntro.src, <<"docs", "web-development", "reactjs", "intro">>)}

LinkSources == <<"index", "other", "config", "content">>

LinksOf(source) ==
    IF source \in HomePages
    THEN (IF pages[source] = <<>> THEN {} ELSE PageLinks(source, pages[source][1]))
    ELSE IF source = "config" THEN ConfigLinks(siteConfig)
    ELSE ContentLinks

\* The pages of the build: the homepage, a page per document, the blog index.
Routes(cfg) ==
    {<<>>}
    \cup (IF cfg.presets.docs THEN {DocRoute(id) : id \in DocIds} ELSE {})
    \cup (IF cfg.presets.blog THEN {<<"blog">>} ELSE {})

Resolves(to, cfg) == to \in Routes(cfg)

\* The links of the next source are resolved against the pages.
CheckLinks ==
    /\ build.phase = "links"
    /\ LET ls == LinksOf(LinkSources[build.source]) IN
       /\ checked' = checked \cup {l \in ls : Resolves(l.to, siteConfig)}
       /\ broken' = broken \cup {l \in ls : ~Resolves(l.to, siteConfig)}
    /\ build' = IF build.source = Len(LinkSources)
                THEN [build EXCEPT !.phase = "report"]
                ELSE [build EXCEPT !.source = @ + 1]
    /\ UNCHANGED <<clock, copyright, color,
                   nodes, sidebars, featureList, siteConfig, walk, walked, missing,
                   render, renders, pages, brokenMd, svg>>

\* What a reporting option does with a finding.
Throws(option, found) == found # {} /\ option = "throw"

Warns(option, found) == found # {} /\ option = "warn"

\* The build reports what it found as onBrokenMarkdownLinks and
\* onBrokenLinks say, and ends.
Report ==
    /\ build.phase = "report"
    /\ build' = [build EXCEPT
          !.phase = "end",
          !.warnings =
              (IF Warns(siteConfig.onBrokenMarkdownLinks, brokenMd)
               THEN {"markdown links"} ELSE {})
              \cup (IF Warns(siteConfig.onBrokenLinks, broken)
                    THEN {"links"} ELSE {}),
          !.status =
              IF \/ Throws(siteConfig.onBrokenMarkdownLinks, brokenMd)
                 \/ Throws(siteConfig.onBrokenLinks, broken)
              THEN "failed" ELSE "done"]
    /\ UNCHANGED <<clock, copyright, color,
                   nodes, sidebars, featureList, siteConfig, walk, walked, missing,
                   render, renders, pages, checked, broken, brokenMd, svg>>

---------------------------------------------------------------------------
(* The SVG illustration: its shapes with a light and a dark variant, named *)
(* by their line, and its script.  "" is no inline display, and no         *)
(* data-theme attribute.                                                   *)

LightElements == {3, 6, 16, 19, 23, 44, 56}

DarkElements == {4, 7, 17, 20, 31, 45, 58}

SvgElements == LightElements \cup DarkElements

\* style="display:none" on every dark variant, nothing on the light ones.
InlineStyle == [el \in SvgElements |-> IF el \in DarkElements THEN "none" ELSE ""]

\* The shapes drawn twice: <<the light variant, the dark variant>>.
Variants == {<<3, 4>>, <<6, 7>>, <<16, 17>>, <<19, 20>>, <<23, 31>>, <<44, 45>>,
             <<56, 58>>}

\* The display the <style> element declares for a shape, "" for none: the
\* rules of :root[data-theme=...] are more specific than the rules of the
\* media query, which apply when the system prefers dark.
StylesheetDisplay(el, theme, prefersDark) ==
    IF theme = "dark" THEN (IF el \in LightElements THEN "none" ELSE "block")
    ELSE IF theme = "light" THEN (IF el \in LightElements THEN "block" ELSE "none")
    ELSE IF prefersDark THEN (IF el \in LightElements THEN "none" ELSE "block")
    ELSE ""

\* The <text> shapes; the others are circle, rect and path elements.
TextElements == {23, 31}

\* The display of a shape that nothing declares: the browser's own
\* stylesheet makes an SVG <text> a block, and leaves the other shapes with
\* the initial value.
UndeclaredDisplay(el) == IF el \in TextElements THEN "block" ELSE "inline"

\* The computed display of a shape of the document s: a declaration of the
\* style attribute wins over the stylesheet's, and with neither the shape
\* has the display nothing declares.
Display(el, s) ==
    IF s.style[el] # "" THEN s.style[el]
    ELSE IF StylesheetDisplay(el, s.theme, s.prefersDark) # ""
         THEN StylesheetDisplay(el, s.theme, s.prefersDark)
         ELSE UndeclaredDisplay(el)

Displayed(el, s) == Display(el, s) # "none"

\* Attributes of the document element the model changes, and their values.
Attributes == {"data-theme", "class"}

Themes == {"", "light", "dark"}

\* The body of the callback testing for 'light' and taking any other theme
\* for dark.
ApplyThemeLightOnly(theme, style) ==
    IF theme = "light"
    THEN [el \in SvgElements |-> IF el \in LightElements THEN "block" ELSE "none"]
    ELSE [el \in SvgElements |-> IF el \in LightElements THEN "none" ELSE "block"]

\* The body of the callback toggling the display each shape has.
ApplyThemeToggle(theme, style) ==
    [el \in SvgElements |-> IF style[el] = "none" THEN "block" ELSE "none"]

\* The body of the callback for one record of attributeName data-theme.
ApplyTheme(theme, style) ==
    IF theme = "dark"
    THEN [el \in SvgElements |-> IF el \in LightElements THEN "none" ELSE "block"]
    ELSE [el \in SvgElements |-> IF el \in LightElements THEN "block" ELSE "none"]

\* The callback without its test of attributeName.
RECURSIVE HandleMutationsAny(_, _, _)
HandleMutationsAny(records, theme, style) ==
    IF records = <<>> THEN style
    ELSE HandleMutationsAny(Tail(records), theme, ApplyTheme(theme, style))

\* mutations.forEach(...): the theme is read from the document as each
\* record is handled.
RECURSIVE HandleMutations(_, _, _)
HandleMutations(records, theme, style) ==
    IF records = <<>> THEN style
    ELSE HandleMutations(Tail(records), theme,
                         IF Head(records) = "data-theme"
                         THEN ApplyTheme(theme, style) ELSE style)

\* DOMContentLoaded: the observer is created and observes the attributes of
\* the document element.
SvgLoaded ==
    /\ ~svg.loaded
    /\ svg' = [svg EXCEPT !.loaded = TRUE]
    /\ UNCHANGED <<clock, copyright, color,
                   nodes, sidebars, featureList, siteConfig, walk, walked, missing,
                   render, renders, pages, checked, broken, brokenMd, build>>

\* An attribute of the document element is set; an observer that observes
\* queues a record of it.
SetAttribute ==
    /\ Len(svg.records) < MaxPending
    /\ \E name \in Attributes, value \in Themes :
          svg' = [svg EXCEPT
                    !.theme = IF name = "data-theme" THEN value ELSE @,
                    !.records = IF svg.loaded THEN Append(@, name) ELSE @]
    /\ UNCHANGED <<clock, copyright, color,
                   nodes, sidebars, featureList, siteConfig, walk, walked, missing,
                   render, renders, pages, checked, broken, brokenMd, build>>

\* The queued records are delivered to the callback.
DeliverMutations ==
    /\ svg.records # <<>>
    /\ svg' = [svg EXCEPT
                 !.style = HandleMutations(svg.records, svg.theme, svg.style),
                 !.seen = @ \cup Range(svg.records),
                 !.records = <<>>]
    /\ UNCHANGED <<clock, copyright, color,
                   nodes, sidebars, featureList, siteConfig, walk, walked, missing,
                   render, renders, pages, checked, broken, brokenMd, build>>

---------------------------------------------------------------------------
(* The calendar: the year turns while the site is built and served.        *)

NewYear ==
    /\ clock < FirstYear + MaxYears
    /\ clock' = clock + 1
    /\ UNCHANGED <<nodes, sidebars, featureList, siteConfig, walk, walked, missing,
                   render, renders, pages, checked, broken, brokenMd, build, svg,
                   copyright, color>>

---------------------------------------------------------------------------
(* The colour mode of a page in a visitor's browser.  The system reports a *)
(* preferred colour scheme, or none.                                       *)

Preferences == {"dark", "light", "none"}

\* The mode a page starts in.
InitialColorMode(cfg, prefers) ==
    IF cfg.colorMode.respectPrefersColorScheme /\ prefers # "none"
    THEN prefers
    ELSE cfg.colorMode.defaultMode

\* src/css/custom.css.  A rule is named by its line; each of its selectors
\* has the data-theme it requires of an ancestor or of the element itself
\* ("" for none) and the element it selects; a rule declares properties.
Selector(scope, subject) == [scope |-> scope, subject |-> subject]

Rule(line, selectors, properties) ==
    [line |-> line, selectors |-> selectors, properties |-> properties]

\* The stylesheet with its navbar rule written without [data-theme="dark"].
CustomRulesUnscoped ==
    {Rule(4, {Selector("dark", "*")}, {"--ifm-color-primary"}),
     Rule(64, {Selector("", ".navbar")}, {"background-color"})}

CustomRules ==
    {Rule(4, {Selector("dark", "*")},
          {"--ifm-color-primary", "--ifm-color-primary-dark",
           "--ifm-color-primary-darker", "--ifm-color-primary-darkest",
           "--ifm-color-primary-light", "--ifm-color-primary-lighter",
           "--ifm-color-primary-lightest", "--ifm-background-color",
           "--ifm-background-surface-color", "--ifm-font-color-base",
           "--ifm-heading-color", "--card-background"}),
     Rule(27, {Selector("dark", ".button--secondary")},
          {"color", "background-color", "border-color"}),
     Rule(33, {Selector("dark", ".button--secondary:hover")},
          {"background-color", "color", "border-color"}),
     Rule(40, {Selector("dark", ".button--primary")}, {"background-color", "color"}),
     Rule(45, {Selector("dark", ".button--primary:hover")}, {"background-color"}),
     Rule(50, {Selector("dark", ".footer")}, {"background-color"}),
     Rule(55, {Selector("dark", ".footer__link-item")}, {"color"}),
     Rule(59, {Selector("dark", ".footer__copyright")}, {"color"}),
     Rule(64, {Selector("dark", ".navbar")}, {"background-color"}),
     Rule(68, {Selector("dark", ".navbar__link")}, {"color"}),
     Rule(72, {Selector("dark", ".navbar__link:hover"),
               Selector("dark", ".navbar__link--active")}, {"color"}),
     Rule(78, {Selector("dark", ".table-of-contents")}, {"border-left-color"}),
     Rule(82, {Selector("dark", ".table-of-contents__link")}, {"color"}),
     Rule(86, {Selector("dark", ".table-of-contents__link:hover"),
               Selector("dark", ".table-of-contents__link--active")}, {"color"})}

\* The rules of the stylesheet that can match an element of a page whose
\* document element has data-theme mode.
Overrides(mode) ==
    {r \in CustomRules : \E sel \in r.selectors : sel.scope \in {"", mode}}

\* The properties the stylesheet sets on such a page.
Overridden(mode) == UNION {r.properties : r \in Overrides(mode)}

\* The visitor uses the switch of the navbar.
ToggleColorMode ==
    /\ ~siteConfig.colorMode.disableSwitch
    /\ color' = [color EXCEPT
                   !.mode = IF @ = "dark" THEN "light" ELSE "dark",
                   !.switched = TRUE]
    /\ UNCHANGED <<nodes, sidebars, featureList, siteConfig, walk, walked, missing,
                   render, renders, pages, checked, broken, brokenMd, build, svg,
                   clock, copyright>>

---------------------------------------------------------------------------
(* The site: the build loads the sidebars, renders the homepage, checks    *)
(* the links and reports; the illustration is a document of its own.       *)

Init ==
    /\ nodes = SidebarNodes
    /\ sidebars = Sidebars
    /\ featureList = FeatureList
    /\ siteConfig = config
    /\ walk = NoWalk
    /\ walked = <<>>
    /\ missing = {}
    /\ render = NoRender
    /\ renders = 0
    /\ pages = [p \in HomePages |-> <<>>]
    /\ checked = {}
    /\ broken = {}
    /\ brokenMd = {}
    /\ build = [phase |-> "sidebars", source |-> 1, status |-> "running", warnings |-> {}]
    /\ clock = FirstYear
    /\ copyright = clock
    /\ \E prefers \in Preferences :
          /\ svg = [loaded |-> FALSE, theme |-> "", style |-> InlineStyle,
                    records |-> <<>>, seen |-> {},
                    prefersDark |-> (prefers = "dark")]
          /\ color = [prefers |-> prefers, switched |-> FALSE,
                      mode |-> InitialColorMode(config, prefers)]

Next ==
    \/ StartWalk
    \/ VisitNode
    \/ FinishWalk
    \/ RenderHome
    \/ RenderHeader
    \/ RenderFeature
    \/ RenderSections
    \/ RenderReturn
    \/ RenderEnd
    \/ CheckLinks
    \/ Report
    \/ SvgLoaded
    \/ SetAttribute
    \/ DeliverMutations

Spec == Init /\ [][Next]_vars

\* The build alone, while the year turns.
BuildNext ==
    \/ StartWalk
    \/ VisitNode
    \/ FinishWalk
    \/ RenderHome
    \/ RenderHeader
    \/ RenderFeature
    \/ RenderSections
    \/ RenderReturn
    \/ RenderEnd
    \/ CheckLinks
    \/ Report
    \/ NewYear

BuildSpec == Init /\ [][BuildNext]_vars

\* A visitor's browser alone: the page's colour mode and the illustration.
ThemeNext ==
    \/ SvgLoaded
    \/ SetAttribute
    \/ DeliverMutations
    \/ ToggleColorMode

ThemeSpec == Init /\ [][ThemeNext]_vars

---------------------------------------------------------------------------
(* The build of a site whose configuration has any title and tagline:      *)
(* both are strings, and either may be empty.                              *)

Titles == {"Nahid Learns", "Notes", ""}

Taglines == {"My Learning Journey in Tech", "Learning in public", ""}

SiteConfigs ==
    {[config EXCEPT !.title = t, !.tagline = g] : t \in Titles, g \in Taglines}

HomeInit ==
    /\ nodes = SidebarNodes
    /\ sidebars = Sidebars
    /\ featureList = FeatureList
    /\ siteConfig \in SiteConfigs
    /\ walk = NoWalk
    /\ walked = <<>>
    /\ missing = {}
    /\ render = NoRender
    /\ renders = 0
    /\ pages = [p \in HomePages |-> <<>>]
    /\ checked = {}
    /\ broken = {}
    /\ brokenMd = {}
    /\ build = [phase |-> "sidebars", source |-> 1, status |-> "running", warnings |-> {}]
    /\ svg = [loaded |-> FALSE, theme |-> "", style |-> InlineStyle,
              records |-> <<>>, seen |-> {}, prefersDark |-> FALSE]
    /\ clock = FirstYear
    /\ copyright = clock
    /\ color = [prefers |-> "none", switched |-> FALSE,
                mode |-> InitialColorMode(config, "none")]

HomeNext ==
    \/ StartWalk
    \/ VisitNode
    \/ FinishWalk
    \/ RenderHome
    \/ RenderHeader
    \/ RenderFeature
    \/ RenderSections
    \/ RenderReturn
    \/ RenderEnd
    \/ CheckLinks
    \/ Report

HomeSpec == HomeInit /\ [][HomeNext]_vars

---------------------------------------------------------------------------
(* The reporting of a build, for any findings: what the link checker and   *)
(* the docs plugin found is an input.                                      *)

FindingNames == {"a", "b", "c"}

Findings == {Emitted("input", n, <<"missing">>) : n \in FindingNames}

ReportInit ==
    /\ nodes = SidebarNodes
    /\ sidebars = Sidebars
    /\ featureList = FeatureList
    /\ siteConfig = config
    /\ walk = NoWalk
    /\ walked = <<>>
    /\ missing = {}
    /\ render = NoRender
    /\ renders = 0
    /\ pages = [p \in HomePages |-> <<>>]
    /\ checked = {}
    /\ broken \in SUBSET Findings
    /\ brokenMd \in SUBSET Findings
    /\ build = [phase |-> "report", source |-> Len(LinkSources),
                status |-> "running", warnings |-> {}]
    /\ svg = [loaded |-> FALSE, theme |-> "", style |-> InlineStyle,
              records |-> <<>>, seen |-> {}, prefersDark |-> FALSE]
    /\ clock = FirstYear
    /\ copyright = clock
    /\ color = [prefers |-> "none", switched |-> FALSE,
                mode |-> InitialColorMode(config, "none")]

ReportSpec == ReportInit /\ [][Report]_vars

---------------------------------------------------------------------------
(* Properties. *)

Leaves == {n \in DOMAIN nodes : nodes[n].type = "doc"}

AllWalked == DOMAIN walked = Range(SidebarIds)

\* C1: every sidebar leaf references a document id that exists: every string
\* item of every category of the four sidebars is the id of a document under
\* docs/, and no traversal of a sidebar finds an item it cannot resolve.
C1_SidebarLeavesExist ==
    /\ \A n \in Leaves : nodes[n].id \in DocIds
    /\ \A m \in missing : m.as # "item"

\* The four sidebars are walked and every leaf was visited.
C1_Witness ==
    /\ AllWalked
    /\ Leaves # {}
    /\ Leaves \subseteq UNION {Range(walked[sb]) : sb \in DOMAIN walked}

\* C2: every internal link written in a content document resolves to a page
\* of the build; checked, the link of docs/web-development/intro.md to
\* /docs/web-development/reactjs/intro is not broken.
C2_ContentLinksResolve ==
    \A l \in broken : l.from # "content"

\* C3: every internal link the homepage components emit (hero buttons,
\* feature cards, recent updates) resolves to a page of the build.
C3_HomepageLinksResolve ==
    \A l \in broken : l.from \notin HomePages

\* C4: every internal "to" link of the site configuration (navbar Blog item,
\* footer Learn and More items) resolves to a page of the build.
C4_ConfigLinksResolve ==
    \A l \in broken : l.from # "config"

CardsMatch(cards, n) ==
    /\ Len(cards) = n
    /\ \A i \in 1..n :
          /\ cards[i].key = i - 1
          /\ cards[i].card.h3 = featureList[i].title
          /\ cards[i].card.link.to = featureList[i].link

\* C5: Home renders exactly one Feature card per FeatureList entry, in array
\* order; the i-th card shows the i-th entry's title and links to the i-th
\* entry's link.  During a render the cards are those of the entries mapped
\* so far.
C5_OneCardPerFeature ==
    /\ render.pc # "idle" => CardsMatch(render.out.cards, render.idx)
    /\ \A p \in HomePages : \A k \in DOMAIN pages[p] :
          CardsMatch(pages[p][k].cards, Len(featureList))

\* Both texts of the homepage have been rendered.
C5_Witness ==
    \A p \in HomePages : pages[p] # <<>>

\* How often n is listed: as an item of a node or at the top of a sidebar.
Listings(n) ==
    Cardinality(UNION {{<<m, i>> : i \in {j \in DOMAIN nodes[m].items :
                                            nodes[m].items[j] = n}} :
                       m \in DOMAIN nodes})
    + Cardinality(UNION {{<<sb, i>> : i \in {j \in DOMAIN sidebars[sb] :
                                                sidebars[sb][j] = n}} :
                         sb \in DOMAIN sidebars})

RECURSIVE Below(_, _)
\* The nodes reached from the nodes S in at most k steps down.
Below(S, k) ==
    LET T == S \cup UNION {Range(nodes[n].items) : n \in S}
    IN  IF k = 0 \/ T = S THEN S ELSE Below(T, k - 1)

Descendants(n) == Below(Range(nodes[n].items), Cardinality(DOMAIN nodes))

NoDuplicates(seq) == \A i, j \in DOMAIN seq : seq[i] = seq[j] => i = j

\* C6: every sidebar is a finite acyclic tree: no node is its own descendant,
\* every node is listed exactly once (one parent: a category or the sidebar
\* itself), and a traversal from a sidebar's top visits each node below it
\* once and ends within as many steps as there are nodes.
C6_SidebarsAreTrees ==
    /\ \A n \in DOMAIN nodes : n \notin Descendants(n)
    /\ \A n \in DOMAIN nodes : Listings(n) = 1
    /\ NoDuplicates(walk.visited)
    /\ Len(walk.visited) + Len(walk.stack) <= Cardinality(DOMAIN nodes)
    /\ \A sb \in DOMAIN walked :
          /\ NoDuplicates(walked[sb])
          /\ Range(walked[sb]) = Below(Range(sidebars[sb]), Cardinality(DOMAIN nodes))

\* The traversal of the deepest sidebar, webDevSidebar, has ended.
C6_Witness ==
    /\ "webDevSidebar" \in DOMAIN walked
    /\ Len(walked["webDevSidebar"]) > 1

\* C7: a build that found a broken link fails (onBrokenLinks is "throw"); a
\* build that found only broken Markdown links warns of them and completes
\* (onBrokenMarkdownLinks is "warn").
C7_BrokenLinksFailTheBuild ==
    build.phase = "end" =>
        /\ broken # {} => build.status = "failed"
        /\ (broken = {} /\ brokenMd # {}) =>
              build.status = "done" /\ "markdown links" \in build.warnings
        /\ (broken = {} /\ brokenMd = {}) =>
              build.status = "done" /\ build.warnings = {}

\* A build with broken Markdown links and no broken link has ended.
C7_Witness ==
    /\ build.phase = "end"
    /\ broken = {}
    /\ brokenMd # {}

\* C8: the authored data is never mutated: whatever was rendered, FeatureList,
\* the sidebars and the site configuration hold the values of the source.
C8_AuthoredDataUnchanged ==
    /\ featureList = FeatureList
    /\ nodes = SidebarNodes
    /\ sidebars = Sidebars
    /\ siteConfig = config

\* Home was rendered twice, and Feature for every entry each time.
C8_Witness ==
    /\ Len(pages["index"]) + Len(pages["other"]) >= 2
    /\ \A p \in HomePages : \A k \in DOMAIN pages[p] :
          Len(pages[p][k].cards) = Len(FeatureList)

\* C9: the page components are stateless: any two renders of the same text
\* of Home under the same site configuration give the same markup (header,
\* cards, sections), whatever was rendered before.
C9_RendersAgree ==
    \A p \in HomePages : \A i, j \in DOMAIN pages[p] : pages[p][i] = pages[p][j]

\* One text of Home was rendered twice.
C9_Witness ==
    \E p \in HomePages : Len(pages[p]) >= 2

\* C10, as stated: nothing of the authored files reacts to an event: once
\* loaded, no state of the site changes on an attribute change.
C10_NothingReacts ==
    [][svg'.style = svg.style]_vars

\* C10, amended: the components, the sidebars and the configuration hold no
\* mutable state; the script of the SVG illustration is event-driven: the
\* inline display of its shapes changes, and only when its observer, set up
\* at DOMContentLoaded, is delivered a record of a data-theme change.
C10_OnlyTheSvgScriptReacts ==
    [][/\ featureList' = featureList
       /\ nodes' = nodes
       /\ sidebars' = sidebars
       /\ siteConfig' = siteConfig
       /\ svg'.style # svg.style =>
             /\ svg.loaded
             /\ "data-theme" \in Range(svg.records)
             /\ svg'.records = <<>>]_vars

\* The script has rewritten the inline display of the shapes.
C10_Witness ==
    svg.style # InlineStyle

\* C11: the year of the footer's copyright is computed once, when the
\* configuration is evaluated: it stays the year of that evaluation, and the
\* footer of every page rendered carries it, whatever the year has become
\* when the page is rendered.
C11_CopyrightYearFixed ==
    /\ copyright = FirstYear
    /\ render.pc # "idle" => render.out.footer = copyright
    /\ \A p \in DOMAIN pages :
          \A i \in DOMAIN pages[p] : pages[p][i].footer = copyright

\* The year has turned since the configuration was evaluated, and both texts
\* of the homepage are rendered.
C11_Witness ==
    /\ clock > copyright
    /\ \A p \in DOMAIN pages : pages[p] # <<>>

\* C12: every category node of every sidebar, at every level and with or
\* without items, carries a link of type doc whose id is the id of a
\* document of the content, and no traversal of a sidebar reports a
\* category link it could not resolve.
C12_CategoryLinksExist ==
    /\ \A n \in DOMAIN nodes :
          nodes[n].type = "category" =>
             /\ nodes[n].link.type = "doc"
             /\ nodes[n].link.id \in DocIds
    /\ \A m \in missing : m.as # "link"

\* C13: when the observer's callback is given a record of a mutation of
\* data-theme, it leaves every light shape with display none and every dark
\* shape with display block if the document's theme is dark, and every
\* light shape with display block and every dark shape with display none
\* for any other theme.
C13_ThemeMutationSetsDisplay ==
    [][(svg.records # <<>> /\ svg'.records = <<>>
        /\ "data-theme" \in Range(svg.records))
       => IF svg.theme = "dark"
          THEN /\ \A el \in LightElements : svg'.style[el] = "none"
               /\ \A el \in DarkElements : svg'.style[el] = "block"
          ELSE /\ \A el \in LightElements : svg'.style[el] = "block"
               /\ \A el \in DarkElements : svg'.style[el] = "none"]_vars

\* The callback has handled a change of the theme to dark.
C13_Witness ==
    /\ svg.loaded
    /\ svg.records = <<>>
    /\ "data-theme" \in svg.seen
    /\ svg.theme = "dark"
    /\ \A el \in DarkElements : svg.style[el] = "block"

\* C14: whenever no mutation record waits for the callback, at load and
\* after any changes of data-theme, the shapes displayed match the theme:
\* with data-theme dark exactly the dark shapes, with data-theme light
\* exactly the light shapes, and of the two variants of a shape exactly one.
C14_VisibleVariantMatchesTheme ==
    svg.records = <<>> =>
       /\ svg.theme = "dark" =>
             /\ \A el \in DarkElements : Displayed(el, svg)
             /\ \A el \in LightElements : ~Displayed(el, svg)
       /\ svg.theme = "light" =>
             /\ \A el \in LightElements : Displayed(el, svg)
             /\ \A el \in DarkElements : ~Displayed(el, svg)
       /\ \A v \in Variants : Displayed(v[1], svg) # Displayed(v[2], svg)

\* C15: the observer's callback changes the display of a shape only for
\* records of data-theme: the delivery of records of other attributes alone
\* leaves the inline display of every light and dark shape, and so the
\* display computed for it, as it was.
C15_OtherAttributesLeaveDisplay ==
    [][(svg.records # <<>> /\ svg'.records = <<>>
        /\ "data-theme" \notin Range(svg.records))
       => /\ svg'.style = svg.style
          /\ \A el \in SvgElements : Display(el, svg') = Display(el, svg)]_vars

\* Only records of the class attribute were ever delivered, for a document
\* whose theme was dark before the observer was registered: the shapes are
\* styled as written.
C15_Witness ==
    /\ svg.loaded
    /\ svg.records = <<>>
    /\ svg.seen = {"class"}
    /\ svg.theme = "dark"
    /\ svg.style = InlineStyle

\* C16: the theme handler is idempotent and free of history: from the
\* styles the shapes have, handling a theme twice, in one batch of records
\* or in two, gives the styles that handling it once gives; and once a
\* change of theme has been handled, the styles are those a single change
\* to the document's last theme gives the shapes as written, whatever
\* changes came before.
C16_HandlerIdempotent ==
    /\ \A t \in Themes :
          /\ ApplyTheme(t, ApplyTheme(t, svg.style)) = ApplyTheme(t, svg.style)
          /\ HandleMutations(<<"data-theme", "data-theme">>, t, svg.style)
                = HandleMutations(<<"data-theme">>, t, svg.style)
    /\ (svg.loaded /\ svg.records = <<>> /\ "data-theme" \in svg.seen)
          => svg.style = HandleMutations(<<"data-theme">>, svg.theme, InlineStyle)

\* Changes of the theme have been handled and the last theme is light: the
\* light shapes are displayed as block, the dark ones not at all.
C16_Witness ==
    /\ svg.loaded
    /\ svg.records = <<>>
    /\ "data-theme" \in svg.seen
    /\ svg.theme = "light"
    /\ \A el \in LightElements : svg.style[el] = "block"
    /\ \A el \in DarkElements : svg.style[el] = "none"

\* C17: every selector of every rule of the custom stylesheet requires
\* data-theme dark, so on a page in light mode, from the start or after the
\* visitor switched to it, no rule of the stylesheet applies and no
\* property is overridden; in dark mode all of them apply.
C17_CustomRulesDarkOnly ==
    /\ \A r \in CustomRules : \A sel \in r.selectors : sel.scope = "dark"
    /\ color.mode = "light" => Overrides(color.mode) = {} /\ Overridden(color.mode) = {}
    /\ color.mode = "dark" => Overrides(color.mode) = CustomRules

\* A page that started in dark mode was switched to light mode.
C17_Witness ==
    /\ color.prefers = "dark"
    /\ color.switched
    /\ color.mode = "light"

\* C18: a page starts in the colour scheme the visitor's system prefers when
\* it reports one, and in light mode when it reports none; the switch is
\* never disabled, so at any time the visitor can change the mode, and the
\* mode is light or dark.
C18_ColorModeFollowsVisitor ==
    /\ ~color.switched =>
          color.mode = IF color.prefers \in {"dark", "light"}
                       THEN color.prefers ELSE "light"
    /\ color.mode \in {"light", "dark"}
    /\ ~siteConfig.colorMode.disableSwitch
    /\ ENABLED ToggleColorMode

\* A visitor whose system reports no preference switched the page, which
\* started in light mode, to dark mode.
C18_Witness ==
    /\ color.prefers = "none"
    /\ color.switched
    /\ color.mode = "dark"

\* The navbar items of type docSidebar, by their place in the navbar.
DocSidebarItems ==
    {i \in DOMAIN siteConfig.navbar : siteConfig.navbar[i].kind = "docSidebar"}

\* C19: the navbar and the sidebars correspond one to one: every navbar
\* item of type docSidebar names a key of the sidebars object, and every
\* key of the sidebars object is named by exactly one navbar item.
C19_NavbarMatchesSidebars ==
    /\ \A i \in DocSidebarItems : siteConfig.navbar[i].sidebarId \in DOMAIN sidebars
    /\ \A sb \in DOMAIN sidebars :
          Cardinality({i \in DocSidebarItems :
                          siteConfig.navbar[i].sidebarId = sb}) = 1
    /\ Cardinality(DocSidebarItems) = Cardinality(DOMAIN sidebars)

\* Every sidebar has been loaded and traversed, and each is the sidebar of
\* a navbar item.
C19_Witness ==
    /\ AllWalked
    /\ DocSidebarItems # {}
    /\ \A sb \in DOMAIN walked :
          \E i \in DocSidebarItems : siteConfig.navbar[i].sidebarId = sb

\* The link targets of FeatureList.
FeatureTargets == {featureList[i].link : i \in DOMAIN featureList}

\* The 'to' targets of the footer's column titled Learn.
LearnTargets ==
    UNION {{col.items[i].to : i \in {j \in DOMAIN col.items : col.items[j].kind = "to"}} :
           col \in {c \in Range(siteConfig.footer) : c.title = "Learn"}}

\* The top-level nodes of the sidebars, and the routes of their link docs.
TopLevel == UNION {Range(sidebars[sb]) : sb \in DOMAIN sidebars}

SidebarTargets == {DocRoute(nodes[n].link.id) : n \in TopLevel}

\* C20: the four learning sections are listed alike everywhere: the link
\* targets of FeatureList, the 'to' targets of the footer's Learn column
\* and the /docs/<id> routes of the link docs of the sidebars' top-level
\* categories are one set of four targets, each of the three lists names
\* four, and the cards of a rendered homepage link to those.
C20_SectionsListedAlike ==
    /\ FeatureTargets = LearnTargets
    /\ LearnTargets = SidebarTargets
    /\ Cardinality(FeatureTargets) = 4
    /\ Len(featureList) = 4
    /\ Cardinality(TopLevel) = 4
    /\ \A n \in TopLevel : nodes[n].type = "category" /\ nodes[n].link.type = "doc"
    /\ \A col \in Range(siteConfig.footer) : col.title = "Learn" => Len(col.items) = 4
    /\ \A p \in DOMAIN pages : \A i \in DOMAIN pages[p] :
          {pages[p][i].cards[j].card.link.to : j \in DOMAIN pages[p][i].cards}
             = SidebarTargets

\* Every sidebar has been traversed and both texts of the homepage are
\* rendered with their four cards.
C20_Witness ==
    /\ AllWalked
    /\ \A p \in DOMAIN pages : pages[p] # <<>> /\ Len(pages[p][1].cards) = 4

\* The nodes that name a document, as a leaf item or as a category's link,
\* the id each names, and the nodes that name a given id.
Naming == {n \in DOMAIN nodes : nodes[n].type = "doc" \/ nodes[n].link.type = "doc"}

RefId(n) == IF nodes[n].type = "doc" THEN nodes[n].id ELSE nodes[n].link.id

Referring(id) == {n \in Naming : RefId(n) = id}

ReferredIds == {RefId(n) : n \in Naming}

\* The traversed sidebars in which a node names the id.
SidebarsOf(id) == {sb \in DOMAIN walked : Referring(id) \cap Range(walked[sb]) # {}}

\* No id is named by two nodes, and the traversals meet a named id in at
\* most one sidebar, in exactly one once every sidebar is traversed.
IdsNamedOnce ==
    \A id \in ReferredIds :
       /\ Cardinality(Referring(id)) = 1
       /\ Cardinality(SidebarsOf(id)) <= 1
       /\ AllWalked => Cardinality(SidebarsOf(id)) = 1

\* C21: no document id is named more than once across the sidebars, as a
\* leaf item or as a category's link, so every document belongs to exactly
\* one sidebar and has a single position in the navigation: every named id
\* is a document, every document is named by exactly one node, and once
\* every sidebar is traversed the traversals have met it in exactly one
\* sidebar.
C21_EveryDocumentInOneSidebar ==
    /\ IdsNamedOnce
    /\ \A id \in ReferredIds : id \in DocIds
    /\ \A f \in Docs :
          /\ Cardinality(Referring(DocId(f))) = 1
          /\ AllWalked => Cardinality(SidebarsOf(DocId(f))) = 1

\* The sidebar_position of the document of an id: that of the front-matter
\* block its file starts with; no position when no file is that document.
Positions(id) ==
    {f.fm[1].pos : f \in {g \in Docs : DocId(g) = id /\ g.fm # <<>> /\ g.fm[1].line = 1}}

\* The leaf items of a category, in the order they are listed.
LeafItems(n) == SelectSeq(nodes[n].items, LAMBDA m : nodes[m].type = "doc")

\* Within every category the leaf items are listed by strictly ascending
\* sidebar_position.
LeavesAscending ==
    \A n \in DOMAIN nodes :
       \A i, j \in DOMAIN LeafItems(n) :
          i < j => \A a \in Positions(nodes[LeafItems(n)[i]].id) :
                      \A b \in Positions(nodes[LeafItems(n)[j]].id) : a < b

\* C22: the order of the leaf items of each category agrees with the front
\* matter of the documents: the items are listed by strictly ascending
\* sidebar_position, and the category's link document has sidebar_position
\* 1, lower than that of every item.
C22_OrderAgreesWithFrontMatter ==
    /\ LeavesAscending
    /\ \A n \in DOMAIN nodes :
          nodes[n].type = "category" =>
             /\ Positions(nodes[n].link.id) = {1}
             /\ \A i \in DOMAIN LeafItems(n) :
                   /\ Positions(nodes[LeafItems(n)[i]].id) # {}
                   /\ \A b \in Positions(nodes[LeafItems(n)[i]].id) : 1 < b

\* C23: every content document is reachable from the navigation: the id of
\* each document under docs/ is named by some sidebar, as a leaf item or as
\* a category's link.
C23_NoOrphanDocuments ==
    \A f \in Docs : DocId(f) \in ReferredIds

\* A well-formed document: one front-matter block, at the start of the
\* file, and one level-1 title, after the block.
WellFormed(f) ==
    /\ Len(f.fm) = 1
    /\ f.head = "frontmatter"
    /\ f.fm[1].line = 1
    /\ Len(f.h1) = 1
    /\ f.h1[1] > f.fm[1].line

\* C24: every content document is well-formed, the documents the sidebars
\* name and the others alike: it has exactly one front-matter block, at the
\* start of the file, which sets sidebar_position, and so the file sets it
\* once; and exactly one level-1 title, after the block.
C24_DocumentsWellFormed ==
    /\ \A n \in Naming : \A f \in Docs : DocId(f) = RefId(n) => WellFormed(f)
    /\ \A f \in Docs : DocId(f) \notin ReferredIds => WellFormed(f)

\* The markup m shows the identity the site is configured with.
ShowsIdentity(m) ==
    /\ m.layoutTitle = siteConfig.title
    /\ \A i \in DOMAIN m.header :
          /\ m.header[i].h1 = siteConfig.title
          /\ m.header[i].subtitle = siteConfig.tagline

\* C25: whatever title and tagline the site is configured with, the
\* homepage shows them: Home passes siteConfig.title to Layout as its
\* title, and its one HomepageHeader renders siteConfig.title as the h1 and
\* siteConfig.tagline as the subtitle, in a render under way and in every
\* page rendered.
C25_HomepageShowsIdentity ==
    /\ render.pc # "idle" =>
          /\ ShowsIdentity(render.out)
          /\ Len(render.out.header) = IF render.pc = "header" THEN 0 ELSE 1
    /\ \A p \in DOMAIN pages : \A i \in DOMAIN pages[p] :
          /\ ShowsIdentity(pages[p][i])
          /\ Len(pages[p][i].header) = 1

\* Both texts of the homepage are rendered for a site configured with
\* another title than the repository's and with an empty tagline.
C25_Witness ==
    /\ siteConfig.title = "Notes"
    /\ siteConfig.tagline = ""
    /\ \A p \in DOMAIN pages :
          /\ pages[p] # <<>>
          /\ pages[p][1].header[1].h1 = "Notes"
          /\ pages[p][1].layoutTitle = "Notes"

=============================================================================
